---- MODULE Spec2Model ----
(***************************************************************************)
(* Model of boomer/print.go: the Report aggregator of the boom load        *)
(* tester.  finalize() drains the results channel with a non-blocking      *)
(* select, reduces the records into the Report and then runs               *)
(* printStatusCodes (twice), printLatencies and printHistogram.            *)
(*                                                                         *)
(* Numbers.  A time.Duration is held in whole milliseconds, so             *)
(* duration.Seconds()*1000 is that count of milliseconds and               *)
(* duration.Seconds() is the fraction duration/1000.  float64 values that  *)
(* are quotients (RPS, Average, AvgTotal) are held as exact fractions with *)
(* the IEEE results NaN and +-Inf for a zero divisor.  Histogram bounds    *)
(* Fastest + bs*i with bs = (Slowest-Fastest)/bc are held as the integer   *)
(* bc*Fastest + (Slowest-Fastest)*i, that is in units of 1/bc ms.          *)
(***************************************************************************)
EXTENDS Integers, Sequences, FiniteSets, TLC

VARIABLES
    todo,            \* records the producers have still to enqueue
    results,         \* r.results: the channel's buffer
    sent,            \* history: how often each record was enqueued
    total,           \* r.total, in milliseconds
    pc,              \* position of the goroutine that owns the Report
    quiet,           \* history: no producer was pending when finalize() was called
    Lats, AvgTotal, SizeTotal, statusCodeDist, errorDist,
    RPS, Average, Fastest, Slowest,
    StatusCodes, Percentiales, Histogram,
    data, nrec,      \* printLatencies: data[], and the final j
    buckets, counts, bi, hi,   \* printHistogram: buckets[], counts[], bi, i
    extra            \* which print function was called again after finalize()

vars == <<todo, results, sent, total, pc, quiet, Lats, AvgTotal, SizeTotal,
          statusCodeDist, errorDist, RPS, Average, Fastest, Slowest,
          StatusCodes, Percentiales, Histogram, data, nrec,
          buckets, counts, bi, hi, extra>>

producerVars == <<todo, results, sent>>
drainVars == <<Lats, AvgTotal, SizeTotal, statusCodeDist, errorDist>>
statVars == <<RPS, Average, Fastest, Slowest>>
latVars == <<data, nrec>>
histVars == <<buckets, counts, bi, hi>>

\* ---------------------------------------------------------------- bounds
MaxRecs == 4

\* ------------------------------------------------------------ the inputs
NoErr == ""

Success(d, code, len) ==
    [err |-> NoErr, duration |-> d, statusCode |-> code, contentLength |-> len]

Failure(msg) ==
    [err |-> msg, duration |-> 0, statusCode |-> 0, contentLength |-> 0]

Records ==
    { Success(0, 200, 5), Success(2, 200, -1), Success(7, 404, 5),
      Success(-1, 500, 0), Failure("timeout"), Failure("refused") }

Totals == {0, 2000}

\* ------------------------------------------------------------- float64
Num(n, d) == [k |-> "num", n |-> n, d |-> d]
NaN == [k |-> "nan", n |-> 0, d |-> 1]
Inf(s) == [k |-> "inf", n |-> s, d |-> 1]

Abs(x) == IF x < 0 THEN -x ELSE x
Sgn(x) == IF x < 0 THEN -1 ELSE IF x > 0 THEN 1 ELSE 0

RECURSIVE GCD(_, _)
GCD(a, b) == IF b = 0 THEN a ELSE GCD(b, a % b)

\* the fraction n/d (d > 0) in lowest terms: one value per number
Frac(n, d) == Num(n \div GCD(Abs(n), d), d \div GCD(Abs(n), d))

FDivGuarded(x, y) ==
    IF y.n = 0 THEN Num(0, 1)
    ELSE Frac(x.n * y.d * Sgn(y.n), x.d * Abs(y.n))

\* x / y on float64: a zero divisor gives NaN (0/0) or an infinity
FDiv(x, y) ==
    IF y.n = 0
    THEN IF x.n = 0 THEN NaN ELSE Inf(Sgn(x.n))
    ELSE Frac(x.n * y.d * Sgn(y.n), x.d * Abs(y.n))

\* time.Duration.Seconds() of a duration of ms milliseconds
Seconds(ms) == Frac(ms, 1000)

\* res.duration.Seconds()*1000
LatencyOf(res) == (Seconds(res.duration).n * 1000) \div Seconds(res.duration).d

\* r.AvgTotal += res.duration.Seconds()
AddSeconds(acc, res) ==
    Frac(acc.n * Seconds(res.duration).d + Seconds(res.duration).n * acc.d,
         acc.d * Seconds(res.duration).d)

\* ---------------------------------------------------------------- maps
MapGet(m, key) == IF key \in DOMAIN m THEN m[key] ELSE 0

MapIncOverwrite(m, key) ==
    [x \in DOMAIN m \cup {key} |-> IF x = key THEN 1 ELSE m[x]]

\* m[key]++ on a Go map
MapInc(m, key) ==
    [x \in DOMAIN m \cup {key} |-> IF x = key THEN MapGet(m, key) + 1 ELSE m[x]]

EmptyMap == [x \in {} |-> 0]

\* if res.contentLength > 0 { r.SizeTotal += res.contentLength }
AddSize(size, len) == IF len > 0 THEN size + len ELSE size

\* ---------------------------------------------------------------- sort
RECURSIVE Insert(_, _)
Insert(s, x) ==
    IF s = <<>> THEN <<x>>
    ELSE IF x <= Head(s) THEN <<x>> \o s
    ELSE <<Head(s)>> \o Insert(Tail(s), x)

RECURSIVE InsertionSort(_)
InsertionSort(s) ==
    IF s = <<>> THEN <<>> ELSE Insert(InsertionSort(Tail(s)), Head(s))

SortOmitted(s) == s

\* sort.Float64s(r.Lats)
SortFloat64s(s) == InsertionSort(s)

\* --------------------------------------------------------- printLatencies
pctls == <<10, 25, 50, 75, 90, 95, 99>>

\* the scan loop: i and j are the 0-based loop variables
RECURSIVE PctlScan(_, _, _, _)
PctlScan(lats, i, j, d) ==
    IF ~(i < Len(lats) /\ j < Len(pctls)) THEN [data |-> d, j |-> j]
    ELSE LET current == (i * 100) \div Len(lats)
         IN IF current >= pctls[j + 1]
            THEN PctlScan(lats, i + 1, j + 1, [d EXCEPT ![j + 1] = lats[i + 1]])
            ELSE PctlScan(lats, i + 1, j, d)

\* the output loop: the entries appended for the targets from i (1-based) on
RECURSIVE PctlEntries(_, _)
PctlEntries(d, i) ==
    IF i > Len(pctls) THEN <<>>
    ELSE (IF d[i] > 0 THEN <<[Percent |-> pctls[i], Count |-> d[i]]>> ELSE <<>>)
         \o PctlEntries(d, i + 1)

AppendOverwrite(old, new) == new

\* append(slice, entries...)
AppendAll(old, new) == old \o new

\* --------------------------------------------------------- printHistogram
bc == 10

\* buckets[i], 0-based, in units of 1/bc ms
Bound(fastest, slowest, i) ==
    IF i = bc THEN bc * slowest ELSE bc * fastest + (slowest - fastest) * i

HistFitsStrict(lat, bound) == bc * lat < bound

\* r.Lats[i] <= buckets[bi]
HistFits(lat, bound) == bc * lat <= bound

HistogramEntriesShort(b, c) ==
    [k \in 1..(Len(b) - 1) |-> [Bucket |-> b[k], Count |-> c[k]]]

\* the output loop of printHistogram
HistogramEntries(b, c) ==
    [k \in 1..Len(b) |-> [Bucket |-> b[k], Count |-> c[k]]]

\* ------------------------------------------------------- printStatusCodes
\* the orders in which range may visit the keys of a map
Orders(S) ==
    { o \in [1..Cardinality(S) -> S] : \A a, b \in 1..Cardinality(S) : a # b => o[a] # o[b] }

\* ------------------------------------------------------------ newReport
ZeroFloat == Num(0, 1)

Init ==
    /\ todo \in 0..MaxRecs
    /\ results = <<>>
    /\ sent = [rec \in Records |-> 0]
    /\ total \in Totals
    /\ pc = "new"
    /\ quiet = FALSE
    /\ Lats = <<>>
    /\ AvgTotal = Num(0, 1)
    /\ SizeTotal = 0
    /\ statusCodeDist = EmptyMap
    /\ errorDist = EmptyMap
    /\ RPS = ZeroFloat
    /\ Average = ZeroFloat
    /\ Fastest = 0
    /\ Slowest = 0
    /\ StatusCodes = <<>>
    /\ Percentiales = <<>>
    /\ Histogram = <<>>
    /\ data = <<>>
    /\ nrec = 0
    /\ buckets = <<>>
    /\ counts = <<>>
    /\ bi = 0
    /\ hi = 0
    /\ extra = "none"

\* ------------------------------------------------------------- producers
\* a worker of the load generator sends one result on the channel
Send ==
    /\ todo > 0
    /\ \E rec \in Records :
        /\ results' = Append(results, rec)
        /\ sent' = [sent EXCEPT ![rec] = @ + 1]
    /\ todo' = todo - 1
    /\ UNCHANGED <<total, pc, quiet, drainVars, statVars, StatusCodes,
                   Percentiales, Histogram, latVars, histVars, extra>>

\* -------------------------------------------------------------- finalize
Call ==
    /\ pc = "new"
    /\ pc' = "drain"
    /\ quiet' = (todo = 0)
    /\ UNCHANGED <<producerVars, total, drainVars, statVars, StatusCodes,
                   Percentiales, Histogram, latVars, histVars, extra>>

SelectDefaultBlocking(ch, pending) == ch = <<>> /\ pending = 0

\* select takes the default branch when no receive is ready
SelectDefault(ch, pending) == ch = <<>>

\* case res := <-r.results
DrainRecv ==
    /\ pc = "drain"
    /\ results # <<>>
    /\ LET res == Head(results) IN
        /\ results' = Tail(results)
        /\ IF res.err # NoErr
           THEN /\ errorDist' = MapInc(errorDist, res.err)
                /\ UNCHANGED <<Lats, AvgTotal, SizeTotal, statusCodeDist>>
           ELSE /\ Lats' = Append(Lats, LatencyOf(res))
                /\ AvgTotal' = AddSeconds(AvgTotal, res)
                /\ statusCodeDist' = MapInc(statusCodeDist, res.statusCode)
                /\ SizeTotal' = AddSize(SizeTotal, res.contentLength)
                /\ UNCHANGED errorDist
    /\ UNCHANGED <<todo, sent, total, pc, quiet, statVars, StatusCodes,
                   Percentiales, Histogram, latVars, histVars, extra>>

\* default: the statistics, the sort and the early return
DrainDefault ==
    /\ pc = "drain"
    /\ SelectDefault(results, todo)
    /\ RPS' = FDiv(Num(Len(Lats), 1), Seconds(total))
    /\ Average' = FDiv(AvgTotal, Num(Len(Lats), 1))
    /\ Lats' = SortFloat64s(Lats)
    /\ IF Len(Lats) = 0
       THEN /\ pc' = "done"
            /\ UNCHANGED <<Fastest, Slowest>>
       ELSE /\ Fastest' = Lats'[1]
            /\ Slowest' = Lats'[Len(Lats')]
            /\ pc' = "codes1"
    /\ UNCHANGED <<producerVars, total, quiet, AvgTotal, SizeTotal,
                   statusCodeDist, errorDist, StatusCodes, Percentiales,
                   Histogram, latVars, histVars, extra>>

\* r.printStatusCodes(), called at line 104 and again at line 105
PrintStatusCodes ==
    /\ pc \in {"codes1", "codes2"}
    /\ \E o \in Orders(DOMAIN statusCodeDist) :
        StatusCodes' = AppendAll(StatusCodes,
            [k \in 1..Len(o) |-> [Code |-> o[k], Count |-> statusCodeDist[o[k]]]])
    /\ pc' = IF pc = "codes1" THEN "codes2" ELSE "latencies"
    /\ UNCHANGED <<producerVars, total, quiet, drainVars, statVars,
                   Percentiales, Histogram, latVars, histVars, extra>>

\* the body of printLatencies
LatenciesBody ==
    LET scan == PctlScan(Lats, 0, 0, [x \in 1..Len(pctls) |-> 0]) IN
        /\ data' = scan.data
        /\ nrec' = scan.j
        /\ Percentiales' = AppendAll(Percentiales, PctlEntries(scan.data, 1))

PrintLatencies ==
    /\ pc = "latencies"
    /\ LatenciesBody
    /\ pc' = "histogram"
    /\ UNCHANGED <<producerVars, total, quiet, drainVars, statVars,
                   StatusCodes, Histogram, histVars, extra>>

\* printHistogram up to the cursor loop
HistBegin ==
    /\ pc = "histogram"
    /\ buckets' = [k \in 1..(bc + 1) |-> Bound(Fastest, Slowest, k - 1)]
    /\ counts' = [k \in 1..(bc + 1) |-> 0]
    /\ bi' = 0
    /\ hi' = 0
    /\ pc' = "scan"
    /\ UNCHANGED <<producerVars, total, quiet, drainVars, statVars,
                   StatusCodes, Percentiales, Histogram, latVars, extra>>

\* one iteration of the cursor loop
HistStep ==
    /\ pc = "scan"
    /\ hi < Len(Lats)
    /\ IF HistFits(Lats[hi + 1], buckets[bi + 1])
       THEN /\ hi' = hi + 1
            /\ counts' = [counts EXCEPT ![bi + 1] = @ + 1]
            /\ UNCHANGED bi
       ELSE IF bi < Len(buckets) - 1
            THEN /\ bi' = bi + 1
                 /\ UNCHANGED <<hi, counts>>
            ELSE UNCHANGED <<hi, counts, bi>>
    /\ UNCHANGED <<producerVars, total, pc, quiet, drainVars, statVars,
                   StatusCodes, Percentiales, Histogram, latVars, buckets, extra>>

\* the cursor loop exits; the output loop; return
HistEmit ==
    /\ pc = "scan"
    /\ ~(hi < Len(Lats))
    /\ Histogram' = AppendAll(Histogram, HistogramEntries(buckets, counts))
    /\ pc' = "done"
    /\ UNCHANGED <<producerVars, total, quiet, drainVars, statVars,
                   StatusCodes, Percentiales, latVars, histVars, extra>>

\* ------------------------------------- a second call on the finalized Report
\* finalize() has run the function once only if it got past the early
\* return, that is if Lats is not empty.
AgainLatencies ==
    /\ pc = "done"
    /\ extra = "none"
    /\ Len(Lats) > 0
    /\ LatenciesBody
    /\ extra' = "latencies"
    /\ UNCHANGED <<producerVars, total, pc, quiet, drainVars, statVars,
                   StatusCodes, Histogram, histVars>>

AgainHistogram ==
    /\ pc = "done"
    /\ extra = "none"
    /\ Len(Lats) > 0
    /\ pc' = "histogram"
    /\ extra' = "histogram"
    /\ UNCHANGED <<producerVars, total, quiet, drainVars, statVars,
                   StatusCodes, Percentiales, Histogram, latVars, histVars>>

Finalize ==
    \/ Call
    \/ DrainRecv
    \/ DrainDefault
    \/ PrintStatusCodes
    \/ PrintLatencies
    \/ HistBegin
    \/ HistStep
    \/ HistEmit

Next ==
    \/ Send
    \/ Finalize
    \/ AgainLatencies
    \/ AgainHistogram

Spec == Init /\ [][Next]_vars

\* -------------------------------- finalize() after the producers have ended
\* The Report is constructed on a channel that already holds the whole run
\* and nothing is sent afterwards; the goroutine that runs finalize() keeps
\* being scheduled.
InitQuiet ==
    /\ todo = 0
    /\ results \in UNION {[1..n -> Records] : n \in 0..MaxRecs}
    /\ sent = [rec \in Records |-> Cardinality({i \in 1..Len(results) : results[i] = rec})]
    /\ total \in Totals
    /\ pc = "new"
    /\ quiet = FALSE
    /\ Lats = <<>>
    /\ AvgTotal = Num(0, 1)
    /\ SizeTotal = 0
    /\ statusCodeDist = EmptyMap
    /\ errorDist = EmptyMap
    /\ RPS = ZeroFloat
    /\ Average = ZeroFloat
    /\ Fastest = 0
    /\ Slowest = 0
    /\ StatusCodes = <<>>
    /\ Percentiales = <<>>
    /\ Histogram = <<>>
    /\ data = <<>>
    /\ nrec = 0
    /\ buckets = <<>>
    /\ counts = <<>>
    /\ bi = 0
    /\ hi = 0
    /\ extra = "none"

QuietSpec == InitQuiet /\ [][Finalize]_vars /\ WF_vars(Finalize)

\* ------------------------------------------------------ the run's records
Successes == {rec \in Records : rec.err = NoErr}
Failures == {rec \in Records : rec.err # NoErr}
Codes == {rec.statusCode : rec \in Successes}
Messages == {rec.err : rec \in Failures}

\* the sum of W(rec) over the records enqueued so far that lie in S
RECURSIVE SentSum(_, _)
SentSum(S, W) ==
    IF S = {} THEN 0
    ELSE LET rec == CHOOSE x \in S : TRUE
         IN sent[rec] * W[rec] + SentSum(S \ {rec}, W)

One == [rec \in Records |-> 1]
DurationOf == [rec \in Records |-> rec.duration]
PositiveLength ==
    [rec \in Records |-> IF rec.contentLength > 0 THEN rec.contentLength ELSE 0]

RECURSIVE MapTotal(_)
MapTotal(m) ==
    IF DOMAIN m = {} THEN 0
    ELSE LET key == CHOOSE x \in DOMAIN m : TRUE
         IN m[key] + MapTotal([x \in DOMAIN m \ {key} |-> m[x]])

RECURSIVE CountSum(_)
CountSum(h) == IF h = <<>> THEN 0 ELSE Head(h).Count + CountSum(Tail(h))

Occurrences(s, v) == Cardinality({i \in 1..Len(s) : s[i] = v})

Returned == pc = "done"
Drained == pc \notin {"new", "drain"}

\* --------------------------------------------------------------------- C1
\* C1: when no producer is pending at the call of finalize(), the drain
\* consumes every enqueued record exactly once and classifies it as success
\* or failure: afterwards the channel is empty, Lats holds one latency per
\* success record, statusCodeDist and errorDist hold the per-code and
\* per-message counts, and failure records reach nothing but errorDist
\* (AvgTotal and SizeTotal are sums over the success records only).
C1_QuietDrainClassifiesAll ==
    (Drained /\ quiet) =>
        /\ results = <<>>
        /\ Len(Lats) = SentSum(Successes, One)
        /\ \A rec \in Successes :
              Occurrences(Lats, rec.duration) =
                  SentSum({x \in Successes : x.duration = rec.duration}, One)
        /\ DOMAIN statusCodeDist \subseteq Codes
        /\ \A c \in Codes :
              MapGet(statusCodeDist, c) =
                  SentSum({x \in Successes : x.statusCode = c}, One)
        /\ DOMAIN errorDist \subseteq Messages
        /\ \A m \in Messages :
              MapGet(errorDist, m) = SentSum({x \in Failures : x.err = m}, One)
        /\ SizeTotal = SentSum(Successes, PositiveLength)
        /\ AvgTotal = Frac(SentSum(Successes, DurationOf), 1000)

C1_Witness ==
    /\ Returned /\ quiet
    /\ \E m \in Messages : MapGet(errorDist, m) = 2
    /\ Len(Lats) >= 2
    /\ SentSum({x \in Successes : x.contentLength <= 0}, One) > 0

\* --------------------------------------------------------------------- C2
\* C2: the drain never waits for a producer: whenever the channel is empty
\* the default branch can be taken, whatever the producers still have to
\* send, and once the drain is over the records counted are the enqueued
\* ones less those left in the channel, so a record enqueued later (or not
\* yet enqueued) is in neither Lats nor errorDist.
C2_DrainNeverWaits ==
    /\ (pc = "drain" /\ results = <<>>) => ENABLED DrainDefault
    /\ Drained =>
          Len(Lats) + MapTotal(errorDist) + Len(results) = SentSum(Records, One)

C2_Witness ==
    /\ Returned
    /\ ~quiet
    /\ results # <<>>
    /\ Len(Lats) + MapTotal(errorDist) < SentSum(Records, One)

\* --------------------------------------------------------------------- C3
\* C3: after finalize() with at least one success record, StatusCodes has
\* exactly one entry per distinct status code, carrying that code's count.
C3_OneEntryPerCode ==
    (Returned /\ Len(Lats) > 0) =>
        /\ Len(StatusCodes) = Cardinality(DOMAIN statusCodeDist)
        /\ \A c \in DOMAIN statusCodeDist :
              \E k \in 1..Len(StatusCodes) :
                  StatusCodes[k] = [Code |-> c, Count |-> statusCodeDist[c]]

\* --------------------------------------------------------------------- C4
\* C4: for every target percentile p for which some index i has
\* floor(i*100/N) >= p, the scan records the latency at the smallest such i.
RanksAtLeast(p) ==
    {i \in 0..(Len(Lats) - 1) : (i * 100) \div Len(Lats) >= p}

Least(S) == CHOOSE x \in S : \A y \in S : x <= y

C4_SmallestRankRecorded ==
    (pc \in {"histogram", "scan", "done"}) =>
        \A j \in 1..Len(pctls) :
            RanksAtLeast(pctls[j]) # {} =>
                /\ j <= nrec
                /\ data[j] = Lats[Least(RanksAtLeast(pctls[j])) + 1]

\* --------------------------------------------------------------------- C5
\* C5: a target percentile is missing from Percentiales exactly when no
\* latency was recorded for it or the recorded latency is 0; every other
\* recorded value (a negative one too) is emitted with its percent rank,
\* and the entries are in ascending percent order.
Recorded(j) == j <= nrec

C5_OmitsOnlyZero ==
    (Returned /\ extra = "none" /\ Len(Lats) > 0) =>
        LET kept == {j \in 1..Len(pctls) : Recorded(j) /\ data[j] # 0} IN
            /\ Len(Percentiales) = Cardinality(kept)
            /\ \A j \in kept :
                  \E k \in 1..Len(Percentiales) :
                      Percentiales[k] = [Percent |-> pctls[j], Count |-> data[j]]
            /\ \A k \in 1..(Len(Percentiales) - 1) :
                  Percentiales[k].Percent < Percentiales[k + 1].Percent

\* --------------------------------------------------------------------- C6
\* C6: after finalize() with at least one success record the counts of the
\* Histogram entries sum to len(Lats).
C6_HistogramCountsSum ==
    (Returned /\ extra # "histogram" /\ Len(Lats) > 0) =>
        CountSum(Histogram) = Len(Lats)

C6_Witness ==
    /\ Returned /\ extra = "none"
    /\ Len(Lats) >= 3
    /\ Fastest < Slowest
    /\ Cardinality({k \in 1..Len(Histogram) : Histogram[k].Count > 0}) >= 3

\* --------------------------------------------------------------------- C7
\* C7: finalize() called with no producer pending always returns; the
\* cursors of the histogram loop stay inside buckets[] and Lats; and when
\* all latencies are identical the first Histogram entry counts every
\* success record and all other entries count 0.
C7_CursorsInRange ==
    pc = "scan" =>
        /\ Len(Lats) > 0
        /\ bi \in 0..(Len(buckets) - 1)
        /\ hi \in 0..Len(Lats)

C7_CollapsedHistogram ==
    (Returned /\ extra = "none" /\ Len(Lats) > 0 /\ Fastest = Slowest) =>
        /\ Histogram[1].Count = Len(Lats)
        /\ \A k \in 2..Len(Histogram) : Histogram[k].Count = 0

C7_FinalizeTerminates ==
    /\ (pc = "drain" /\ quiet) ~> Returned
    /\ [](C7_CursorsInRange /\ C7_CollapsedHistogram)

C7_Witness ==
    /\ Returned /\ quiet /\ extra = "none"
    /\ Len(Lats) >= 2
    /\ Fastest = Slowest
    /\ Len(Histogram) = bc + 1
    /\ Histogram[1].Count = Len(Lats)

\* --------------------------------------------------------------------- C8
\* C8 as stated: with zero success records finalize() returns with empty
\* lists, zero Fastest, Slowest and SizeTotal, and both RPS and Average are
\* the no-data value NaN.
C8_EmptyLists ==
    /\ Lats = <<>> /\ Percentiales = <<>> /\ Histogram = <<>> /\ StatusCodes = <<>>
    /\ Fastest = 0 /\ Slowest = 0 /\ SizeTotal = 0

C9_SecondRunIdentical ==
    [][extra' # "none" => (Percentiales' = Percentiales /\ Histogram' = Histogram)]_vars

\* C9 as amended: a second run computes the same entries as the first and
\* appends them: after a second printLatencies Percentiales is the first
\* run's list followed by the same list again (Histogram untouched), and
\* after a second printHistogram Histogram is the first run's list
\* followed by the same list again (Percentiales untouched).
C9_SecondRunAppendsSame ==
    [][ /\ (extra = "none" /\ extra' = "latencies") =>
              /\ Percentiales' = Percentiales \o Percentiales
              /\ Histogram' = Histogram
        /\ (extra = "histogram" /\ pc = "scan" /\ pc' = "done") =>
              /\ Histogram' = Histogram \o Histogram
              /\ Percentiales' = Percentiales
        /\ (extra = "histogram" /\ pc' # "done") =>
              /\ Histogram' = Histogram
              /\ Percentiales' = Percentiales ]_vars

C9_Witness ==
    /\ Returned
    /\ extra = "latencies"
    /\ Len(Percentiales) >= 4

\* -------------------------------------------------------------------- C10
\* C10: after finalize() with at least one success record Histogram has
\* bc+1 = 11 entries, the bounds do not decrease, the last bound is
\* Slowest, and each entry counts the latencies at or below its bound and
\* above the previous entry's bound.
C10_HistogramShape ==
    (Returned /\ extra # "histogram" /\ Len(Lats) > 0) =>
        /\ Len(Histogram) = 11
        /\ \A k \in 1..(Len(Histogram) - 1) :
              Histogram[k].Bucket <= Histogram[k + 1].Bucket
        /\ Histogram[Len(Histogram)].Bucket = bc * Slowest
        /\ \A k \in 1..Len(Histogram) :
              Histogram[k].Count =
                  Cardinality({i \in 1..Len(Lats) :
                      /\ bc * Lats[i] <= Histogram[k].Bucket
                      /\ k > 1 => bc * Lats[i] > Histogram[k - 1].Bucket})

C10_Witness ==
    /\ Returned /\ extra = "none"
    /\ Fastest < Slowest
    /\ \E k \in 2..bc : Histogram[k].Count >= 2
    /\ \E k \in 2..bc : Histogram[k].Count = 0

====
